---------------------------- MODULE Spec2Model ----------------------------
(***************************************************************************)
(* Model of util/http.go: the process-wide TimeOut / Proxy settings, the   *)
(* per-call httpClient() construction, and the request helpers GetJson,    *)
(* GetXml, GetBody, PostJson, PostJsonPtr, PostXmlPtr, PostFileBytes,       *)
(* GetFile and PostMultipartForm.                                          *)
(*                                                                         *)
(* Goroutines in Procs call the helpers; SetTimeOut and SetProxy may run   *)
(* between any two steps of a call.  A byte string is a sequence of        *)
(* tokens.  Durations and latencies are whole seconds.  The network        *)
(* delivers a response body intact once the response headers have         *)
(* arrived; local file writes may fail.                                    *)
(***************************************************************************)
EXTENDS Integers, Sequences, FiniteSets, TLC

(* ------------------------------ bounds --------------------------------- *)

\* SetTimeOut is called with durations 0 .. MaxDuration (a negative
\* Timeout is treated by the client like zero).
MaxDuration == 1
\* PostMultipartForm is called with at most MaxFields fields.
MaxFields == 2

(* ------------------------- program constants --------------------------- *)

DefaultTimeOut == 60
StatusOK == 200

(* ------------------------------ values --------------------------------- *)

Procs == {"g1"}

Durations == 0 .. MaxDuration

\* Seconds an endpoint takes to respond; the last one outlasts the default.
Latencies == (0 .. (MaxDuration + 1)) \cup {DefaultTimeOut + 1}

\* Proxy selectors: none, one that returns an error for every request, one
\* that returns a proxy URL.
ProxyFns == {"nil", "errSel", "okSel"}

URIs == {"u1", "u2"}

Statuses == {StatusOK, 404}

\* Request objects: a plain string, a string with an HTML-special character,
\* and a channel, which neither encoder supports.
Objects == {"v", "<", "chan"}

JsonDoc == "\"v\""

XmlDoc == "<string>v</string>"

\* Response bodies: a JSON document, an XML document, an error page, nothing.
Bodies == { <<JsonDoc>>, <<XmlDoc>>, <<"Not", "Found">>, <<>> }

\* Variadic contentType arguments of PostJsonPtr.
ContentTypeArgs == { <<>>, <<"text/json">>, <<"text/json", "charset=gbk">> }

FieldSet ==
  { [Fieldname |-> "f1", Value |-> <<"h", "i">>, ContentType |-> "text/plain", Filename |-> "a.txt"],
    [Fieldname |-> "f2", Value |-> <<>>, ContentType |-> "", Filename |-> ""] }

FieldSeqs == UNION { [1..n -> FieldSet] : n \in 0..MaxFields }

DestPath == "dest"

(* ------------------------- byte slices, errors ------------------------- *)

\* A []byte result: the nil slice, or a slice holding data.
NilBytes == [isNil |-> TRUE, data |-> <<>>]

Bytes(b) == [isNil |-> FALSE, data |-> b]

NoErr == [kind |-> "nil", uri |-> "", code |-> 0]

Err(k) == [kind |-> k, uri |-> "", code |-> 0]

StatusErr(uri, code) == [kind |-> "status", uri |-> uri, code |-> code]

(* ------------------------------ codecs --------------------------------- *)

\* json.Encoder.Encode: one token for the value and the newline Encode
\* appends; with HTML escaping on, "<" is written as \u003c.
JsonEncode(obj, escapeHTML) ==
  IF obj = "chan" THEN [ok |-> FALSE, data |-> <<>>]
  ELSE IF obj = "<"
       THEN [ok |-> TRUE, data |-> << (IF escapeHTML THEN "\"\\u003c\"" ELSE "\"<\""), "\n" >>]
       ELSE [ok |-> TRUE, data |-> << JsonDoc, "\n" >>]

\* xml.Encoder.Encode: "<" is always escaped.
XmlEncode(obj) ==
  IF obj = "chan" THEN [ok |-> FALSE, data |-> <<>>]
  ELSE IF obj = "<"
       THEN [ok |-> TRUE, data |-> << "<string>&lt;</string>" >>]
       ELSE [ok |-> TRUE, data |-> << XmlDoc >>]

\* json.Decoder.Decode of a body into the target: the first token must be a
\* JSON document; an empty body is io.EOF, anything else a syntax error.
JsonDecode(body, target) ==
  IF Len(body) > 0 /\ body[1] = JsonDoc
  THEN [err |-> NoErr, target |-> "v"]
  ELSE [err |-> Err("decode"), target |-> target]

\* xml.Decoder.Decode of a body into the target.
XmlDecode(body, target) ==
  IF Len(body) > 0 /\ body[1] = XmlDoc
  THEN [err |-> NoErr, target |-> "v"]
  ELSE [err |-> Err("decode"), target |-> target]

\* strings.Join(contentType, ";")
RECURSIVE Join(_)
Join(parts) ==
  IF Len(parts) = 0 THEN <<>>
  ELSE IF Len(parts) = 1 THEN parts
  ELSE <<parts[1], ";">> \o Join(Tail(parts))

\* The content type PostJsonPtr sends.
JsonPtrContentType(contentType) ==
  IF Len(contentType) > 0 THEN Join(contentType)
  ELSE <<"application/json;charset=utf-8">>

\* One multipart part as PostMultipartForm's loop body writes it: the
\* Content-Disposition produced by the Sprintf, the Content-Type header and
\* the payload copied from field.Value.
EncodePart(field) ==
  [ disposition |-> [ type |-> "form-data",
                      name |-> field.Fieldname,
                      filename |-> field.Filename,
                      filelength |-> Len(field.Value) ],
    contentType |-> field.ContentType,
    payload |-> field.Value ]

\* AppendPart with the new part put in front of the earlier ones.
AppendPartInFront(parts, field) == <<EncodePart(field)>> \o parts

\* What one more loop iteration makes of the parts written so far.
AppendPart(parts, field) == Append(parts, EncodePart(field))

(* --------------------------- client, timeout --------------------------- *)

\* http.Client.Timeout: a deadline is set only for a positive Timeout; zero
\* and negative values mean no timeout.
HasDeadline(timeout) == timeout > 0

\* The request is certainly cut off: the response takes longer than the
\* client's timeout.
MustTimeOut(timeout, lat) == HasDeadline(timeout) /\ lat > timeout

\* The request may be cut off: the timer and the response race when the
\* response takes exactly the timeout.
MayTimeOut(timeout, lat) == HasDeadline(timeout) /\ lat >= timeout

NoClient == [Timeout |-> 0, Transport |-> "none", Proxy |-> "nil"]

NoResp == [status |-> 0, body |-> <<>>]

NoReq == [kind |-> "none", contentType |-> <<>>, data |-> <<>>, parts |-> <<>>]

RawReq(ct, data) == [kind |-> "raw", contentType |-> ct, data |-> data, parts |-> <<>>]

\* bodyWriter.FormDataContentType() and the buffer after bodyWriter.Close().
MultipartReq(parts) ==
  [kind |-> "multipart", contentType |-> <<"multipart/form-data; boundary=B">>,
   data |-> <<>>, parts |-> parts]

(* ------------------------------- state --------------------------------- *)

VARIABLES
  TimeOut,      \* the global TimeOut, in seconds
  Proxy,        \* the global Proxy selector
  timeoutSet,   \* history: SetTimeOut has been called
  fs,           \* the file at DestPath: absent, or its content
  call          \* call[p]: the helper call goroutine p is in

vars == <<TimeOut, Proxy, timeoutSet, fs, call>>

NoFile == [exists |-> FALSE, data |-> <<>>]

File(b) == [exists |-> TRUE, data |-> b]

\* A goroutine that is in no helper.
IdleCall ==
  [ pc |-> "idle",          \* where the call stands
    fn |-> "none",          \* the helper called
    uri |-> "",
    fields |-> <<>>,        \* PostMultipartForm's fields
    parts |-> <<>>,         \* parts written to bodyWriter so far
    req |-> NoReq,          \* the request body built
    encFailed |-> FALSE,    \* history: building the request body failed
    cli |-> NoClient,       \* the client httpClient() is building / built
    chk |-> "nil",          \* Proxy as read by the nil check (line 38)
    held |-> {},            \* history: the Proxy values the globals held
                            \* together with TimeOut = cli.Timeout since
                            \* httpClient() read TimeOut
    stable |-> TRUE,        \* history: no SetProxy since the helper was called
    consulted |-> "nil",    \* the selector the transport invoked
    sent |-> FALSE,         \* request bytes went onto the network
    lat |-> 0,              \* seconds the endpoint takes to respond
    resp |-> NoResp,
    bodyOpen |-> FALSE,     \* resp.Body is open
    fileOpen |-> FALSE,     \* GetFile's *os.File is open
    read |-> FALSE,         \* resp.Body was read (decoded, ReadAll, Copy)
    target |-> "zero",      \* the caller's decode target
    ret |-> [body |-> NilBytes, err |-> NoErr] ]

Init ==
  /\ TimeOut = DefaultTimeOut
  /\ Proxy = "nil"
  /\ timeoutSet = FALSE
  /\ fs = NoFile
  /\ call = [p \in Procs |-> IdleCall]

Put(p, c) == call' = [call EXCEPT ![p] = c]

(* ------------------------ configuration store -------------------------- *)

\* The history fields of the calls whose client is under construction.
NoteConfig(c, t, f, proxySet) ==
  [c EXCEPT
     !.held = IF c.pc \in {"cli38", "cli39"} /\ t = c.cli.Timeout
              THEN @ \cup {f} ELSE @,
     !.stable = IF proxySet /\ c.pc \in {"parts", "cli37", "cli38", "cli39"}
                THEN FALSE ELSE @]

SetTimeOut(d) ==
  /\ TimeOut' = d
  /\ timeoutSet' = TRUE
  /\ call' = [p \in Procs |-> NoteConfig(call[p], d, Proxy, FALSE)]
  /\ UNCHANGED <<Proxy, fs>>

SetProxy(f) ==
  /\ Proxy' = f
  /\ call' = [p \in Procs |-> NoteConfig(call[p], TimeOut, f, TRUE)]
  /\ UNCHANGED <<TimeOut, timeoutSet, fs>>

(* --------------------------- returning --------------------------------- *)

\* return before any defer is registered
Return(c, body, err) ==
  [c EXCEPT !.pc = "done", !.ret = [body |-> body, err |-> err]]

\* ReturnCloseBody without the deferred Close.
ReturnBodyLeftOpen(c, body, err) == Return(c, body, err)

\* return with `defer resp.Body.Close()` registered
ReturnCloseBody(c, body, err) ==
  [Return(c, body, err) EXCEPT !.bodyOpen = FALSE]

\* return with `defer file.Close()` and `defer resp.Body.Close()` registered
ReturnCloseFile(c, body, err) ==
  [ReturnCloseBody(c, body, err) EXCEPT !.fileOpen = FALSE]

\* The call with the body stream consumed.
ReadBody(c) == [c EXCEPT !.read = TRUE]

(* ----------------------- building the request -------------------------- *)

Begin(fn, uri) == [IdleCall EXCEPT !.fn = fn, !.uri = uri, !.pc = "cli37"]

\* Encoded without the `if err != nil` return.
EncodedUnchecked(c, e, ct) ==
  [c EXCEPT !.encFailed = ~e.ok, !.req = RawReq(ct, e.data)]

\* `err := enc.Encode(obj); if err != nil { return }`, then on to
\* httpClient() with the encoded buffer.
Encoded(c, e, ct) ==
  IF ~e.ok
  THEN [Return(c, NilBytes, Err("encode")) EXCEPT !.encFailed = TRUE]
  ELSE [c EXCEPT !.req = RawReq(ct, e.data)]

GetJson(p) ==
  /\ call[p].pc = "idle"
  /\ \E uri \in URIs : Put(p, Begin("GetJson", uri))
  /\ UNCHANGED <<TimeOut, Proxy, timeoutSet, fs>>

GetXml(p) ==
  /\ call[p].pc = "idle"
  /\ \E uri \in URIs : Put(p, Begin("GetXml", uri))
  /\ UNCHANGED <<TimeOut, Proxy, timeoutSet, fs>>

GetBody(p) ==
  /\ call[p].pc = "idle"
  /\ \E uri \in URIs : Put(p, Begin("GetBody", uri))
  /\ UNCHANGED <<TimeOut, Proxy, timeoutSet, fs>>

GetFile(p) ==
  /\ call[p].pc = "idle"
  /\ \E uri \in URIs : Put(p, Begin("GetFile", uri))
  /\ UNCHANGED <<TimeOut, Proxy, timeoutSet, fs>>

PostJson(p) ==
  /\ call[p].pc = "idle"
  /\ \E uri \in URIs, obj \in Objects :
       Put(p, Encoded(Begin("PostJson", uri), JsonEncode(obj, FALSE),
                      <<"application/json;charset=utf-8">>))
  /\ UNCHANGED <<TimeOut, Proxy, timeoutSet, fs>>

PostJsonPtr(p) ==
  /\ call[p].pc = "idle"
  /\ \E uri \in URIs, obj \in Objects, contentType \in ContentTypeArgs :
       Put(p, Encoded(Begin("PostJsonPtr", uri), JsonEncode(obj, TRUE),
                      JsonPtrContentType(contentType)))
  /\ UNCHANGED <<TimeOut, Proxy, timeoutSet, fs>>

PostXmlPtr(p) ==
  /\ call[p].pc = "idle"
  /\ \E uri \in URIs, obj \in Objects :
       Put(p, Encoded(Begin("PostXmlPtr", uri), XmlEncode(obj),
                      <<"application/xml;charset=utf-8">>))
  /\ UNCHANGED <<TimeOut, Proxy, timeoutSet, fs>>

\* PostFileBytes wraps its arguments into one field and delegates.
PostFileBytes(p) ==
  /\ call[p].pc = "idle"
  /\ \E uri \in URIs, f \in FieldSet :
       Put(p, [Begin("PostFileBytes", uri) EXCEPT !.fields = <<f>>, !.pc = "parts"])
  /\ UNCHANGED <<TimeOut, Proxy, timeoutSet, fs>>

PostMultipartForm(p) ==
  /\ call[p].pc = "idle"
  /\ \E uri \in URIs, fields \in FieldSeqs :
       Put(p, [Begin("PostMultipartForm", uri) EXCEPT !.fields = fields, !.pc = "parts"])
  /\ UNCHANGED <<TimeOut, Proxy, timeoutSet, fs>>

\* One iteration of the loop over fields: CreatePart, then io.Copy of the
\* value; either may return an error, which ends the call.
PartWritten(c, outcome) ==
  IF outcome = "ok"
  THEN [c EXCEPT !.parts = AppendPart(c.parts, c.fields[Len(c.parts) + 1])]
  ELSE [Return(c, NilBytes, Err(outcome)) EXCEPT !.encFailed = TRUE]

CreatePart(p) ==
  /\ call[p].pc = "parts"
  /\ Len(call[p].parts) < Len(call[p].fields)
  /\ \E outcome \in {"ok", "createPart", "copyPart"} :
       Put(p, PartWritten(call[p], outcome))
  /\ UNCHANGED <<TimeOut, Proxy, timeoutSet, fs>>

\* After the loop: FormDataContentType(), bodyWriter.Close().
CloseWriter(p) ==
  /\ call[p].pc = "parts"
  /\ Len(call[p].parts) = Len(call[p].fields)
  /\ Put(p, [call[p] EXCEPT !.req = MultipartReq(call[p].parts), !.pc = "cli37"])
  /\ UNCHANGED <<TimeOut, Proxy, timeoutSet, fs>>

(* ---------------------------- httpClient() ----------------------------- *)

\* httpClient37 with the default in place of the global TimeOut.
httpClient37Default(p) ==
  /\ call[p].pc = "cli37"
  /\ Put(p, [call[p] EXCEPT !.cli.Timeout = DefaultTimeOut, !.held = {Proxy}, !.pc = "cli38"])
  /\ UNCHANGED <<TimeOut, Proxy, timeoutSet, fs>>

\* cli := &http.Client{Timeout: TimeOut}
httpClient37(p) ==
  /\ call[p].pc = "cli37"
  /\ Put(p, [call[p] EXCEPT !.cli.Timeout = TimeOut, !.held = {Proxy}, !.pc = "cli38"])
  /\ UNCHANGED <<TimeOut, Proxy, timeoutSet, fs>>

\* httpClient38 that never installs a transport with the selector.
httpClient38NoProxy(p) ==
  /\ call[p].pc = "cli38"
  /\ Put(p, [call[p] EXCEPT !.cli.Transport = "default", !.pc = "send"])
  /\ UNCHANGED <<TimeOut, Proxy, timeoutSet, fs>>

\* if Proxy != nil
httpClient38(p) ==
  /\ call[p].pc = "cli38"
  /\ Put(p, IF Proxy # "nil"
            THEN [call[p] EXCEPT !.chk = Proxy, !.pc = "cli39"]
            ELSE [call[p] EXCEPT !.cli.Transport = "default", !.pc = "send"])
  /\ UNCHANGED <<TimeOut, Proxy, timeoutSet, fs>>

\* cli.Transport = &http.Transport{Proxy: Proxy}.  The unsynchronised global
\* is either read again or taken from the load the nil check made.
httpClient39(p) ==
  /\ call[p].pc = "cli39"
  /\ \E f \in {call[p].chk, Proxy} :
       Put(p, [call[p] EXCEPT !.cli.Transport = "custom", !.cli.Proxy = f,
                              !.chk = "nil", !.pc = "send"])
  /\ UNCHANGED <<TimeOut, Proxy, timeoutSet, fs>>

(* ------------------------- issuing the request ------------------------- *)

\* The client's Get / Post up to the request being on the wire.  The
\* transport first asks the client's proxy selector; a selector error ends
\* the request before anything is sent, as does a failure to connect.
SendResult(c, reachable) ==
  LET d == [c EXCEPT !.consulted = c.cli.Proxy, !.held = {}, !.stable = TRUE] IN
    IF c.cli.Proxy = "errSel"
    THEN [Return(d, NilBytes, Err("proxy")) EXCEPT !.cli = NoClient]
    ELSE IF ~reachable
         THEN [Return(d, NilBytes, Err("connect")) EXCEPT !.cli = NoClient]
         ELSE [d EXCEPT !.sent = TRUE, !.pc = "wait"]

Send(p) ==
  /\ call[p].pc = "send"
  /\ \E reachable \in BOOLEAN : Put(p, SendResult(call[p], reachable))
  /\ UNCHANGED <<TimeOut, Proxy, timeoutSet, fs>>

\* The request in flight ends: the endpoint answers after lat seconds with
\* a status and a body, or the client's timeout cuts the request off.
Received(c, lat, timedOut, status, body) ==
  LET d == [c EXCEPT !.lat = lat, !.cli = NoClient, !.consulted = "nil"] IN
    IF timedOut
    THEN Return(d, NilBytes, Err("timeout"))
    ELSE [d EXCEPT !.resp = [status |-> status, body |-> body],
                   !.bodyOpen = TRUE, !.pc = "resp"]

Receive(p) ==
  /\ call[p].pc = "wait"
  /\ \E lat \in Latencies, timedOut \in BOOLEAN :
       /\ MustTimeOut(call[p].cli.Timeout, lat) => timedOut
       /\ timedOut => MayTimeOut(call[p].cli.Timeout, lat)
       /\ IF timedOut
          THEN Put(p, Received(call[p], lat, TRUE, 0, <<>>))
          ELSE \E status \in Statuses, body \in Bodies :
                 Put(p, Received(call[p], lat, FALSE, status, body))
  /\ UNCHANGED <<TimeOut, Proxy, timeoutSet, fs>>

(* ----------------------- handling the response ------------------------- *)

\* The response as the helper has it once the request is over.
Got(c) == [c EXCEPT !.lat = 0]

\* GetJson, lines 51-52: decode whatever came back.
GetJsonFinish(c) ==
  LET d == JsonDecode(c.resp.body, c.target) IN
    ReturnCloseBody(ReadBody([c EXCEPT !.target = d.target]), NilBytes, d.err)

\* GetXml, lines 61-62.
GetXmlFinish(c) ==
  LET d == XmlDecode(c.resp.body, c.target) IN
    ReturnCloseBody(ReadBody([c EXCEPT !.target = d.target]), NilBytes, d.err)

\* GetBodyFinish without the status check.
GetBodyFinishUnchecked(c) ==
  ReturnCloseBody(ReadBody(c), Bytes(c.resp.body), NoErr)

\* GetBody, lines 71-76.
GetBodyFinish(c) ==
  IF c.resp.status # StatusOK
  THEN ReturnCloseBody(c, NilBytes, StatusErr(c.uri, c.resp.status))
  ELSE ReturnCloseBody(ReadBody(c), Bytes(c.resp.body), NoErr)

\* PostJson, lines 105-110.
PostJsonFinish(c) ==
  IF c.resp.status # StatusOK
  THEN ReturnCloseBody(c, NilBytes, StatusErr(c.uri, c.resp.status))
  ELSE ReturnCloseBody(ReadBody(c), Bytes(c.resp.body), NoErr)

\* PostJsonPtr, lines 131-136.
PostJsonPtrFinish(c) ==
  IF c.resp.status # StatusOK
  THEN ReturnCloseBody(c, NilBytes, StatusErr(c.uri, c.resp.status))
  ELSE LET d == JsonDecode(c.resp.body, c.target) IN
         ReturnCloseBody(ReadBody([c EXCEPT !.target = d.target]), NilBytes, d.err)

\* PostXmlPtr, lines 153-158.
PostXmlPtrFinish(c) ==
  IF c.resp.status # StatusOK
  THEN ReturnCloseBody(c, NilBytes, StatusErr(c.uri, c.resp.status))
  ELSE LET d == XmlDecode(c.resp.body, c.target) IN
         ReturnCloseBody(ReadBody([c EXCEPT !.target = d.target]), NilBytes, d.err)

\* MultipartFinish returning the status error the other POST helpers return.
MultipartFinishStatusErr(c) ==
  IF c.resp.status # StatusOK
  THEN ReturnCloseBody(c, NilBytes, StatusErr(c.uri, c.resp.status))
  ELSE ReturnCloseBody(ReadBody(c), Bytes(c.resp.body), NoErr)

\* PostMultipartForm, lines 226-231: on a status other than 200 it returns
\* `nil, err` with err still nil.
MultipartFinish(c) ==
  IF c.resp.status # StatusOK
  THEN ReturnCloseBody(c, NilBytes, NoErr)
  ELSE ReturnCloseBody(ReadBody(c), Bytes(c.resp.body), NoErr)

\* GetFile, lines 180-185: os.Create truncates or creates the file.
FileCreated(c, failed) ==
  IF failed THEN ReturnCloseBody(c, NilBytes, Err("io"))
  ELSE [c EXCEPT !.fileOpen = TRUE, !.pc = "copy"]

\* GetFile, lines 186-187: io.Copy wrote the first n tokens of the body.
FileCopied(c, n) ==
  ReturnCloseFile(ReadBody(c), NilBytes,
                  IF n = Len(c.resp.body) THEN NoErr ELSE Err("io"))

GetJsonDecode(p) ==
  /\ call[p].pc = "resp" /\ call[p].fn = "GetJson"
  /\ Put(p, GetJsonFinish(Got(call[p])))
  /\ UNCHANGED <<TimeOut, Proxy, timeoutSet, fs>>

GetXmlDecode(p) ==
  /\ call[p].pc = "resp" /\ call[p].fn = "GetXml"
  /\ Put(p, GetXmlFinish(Got(call[p])))
  /\ UNCHANGED <<TimeOut, Proxy, timeoutSet, fs>>

GetBodyRead(p) ==
  /\ call[p].pc = "resp" /\ call[p].fn = "GetBody"
  /\ Put(p, GetBodyFinish(Got(call[p])))
  /\ UNCHANGED <<TimeOut, Proxy, timeoutSet, fs>>

PostJsonRead(p) ==
  /\ call[p].pc = "resp" /\ call[p].fn = "PostJson"
  /\ Put(p, PostJsonFinish(Got(call[p])))
  /\ UNCHANGED <<TimeOut, Proxy, timeoutSet, fs>>

PostJsonPtrDecode(p) ==
  /\ call[p].pc = "resp" /\ call[p].fn = "PostJsonPtr"
  /\ Put(p, PostJsonPtrFinish(Got(call[p])))
  /\ UNCHANGED <<TimeOut, Proxy, timeoutSet, fs>>

PostXmlPtrDecode(p) ==
  /\ call[p].pc = "resp" /\ call[p].fn = "PostXmlPtr"
  /\ Put(p, PostXmlPtrFinish(Got(call[p])))
  /\ UNCHANGED <<TimeOut, Proxy, timeoutSet, fs>>

MultipartRead(p) ==
  /\ call[p].pc = "resp" /\ call[p].fn \in {"PostFileBytes", "PostMultipartForm"}
  /\ Put(p, MultipartFinish(Got(call[p])))
  /\ UNCHANGED <<TimeOut, Proxy, timeoutSet, fs>>

GetFileCreate(p) ==
  /\ call[p].pc = "resp" /\ call[p].fn = "GetFile"
  /\ \E failed \in BOOLEAN :
       /\ Put(p, FileCreated(Got(call[p]), failed))
       /\ fs' = IF failed THEN fs ELSE File(<<>>)
  /\ UNCHANGED <<TimeOut, Proxy, timeoutSet>>

GetFileCopy(p) ==
  /\ call[p].pc = "copy"
  /\ \E n \in 0 .. Len(call[p].resp.body) :
       /\ Put(p, FileCopied(call[p], n))
       /\ fs' = File(SubSeq(call[p].resp.body, 1, n))
  /\ UNCHANGED <<TimeOut, Proxy, timeoutSet>>

\* The caller has the result and the goroutine is free for another call.
Finish(p) ==
  /\ call[p].pc = "done"
  /\ Put(p, IdleCall)
  /\ UNCHANGED <<TimeOut, Proxy, timeoutSet, fs>>

(* --------------------------- specification ----------------------------- *)

Next ==
  \/ \E d \in Durations : SetTimeOut(d)
  \/ \E f \in ProxyFns : SetProxy(f)
  \/ \E p \in Procs :
       \/ GetJson(p) \/ GetXml(p) \/ GetBody(p) \/ GetFile(p)
       \/ PostJson(p) \/ PostJsonPtr(p) \/ PostXmlPtr(p)
       \/ PostFileBytes(p) \/ PostMultipartForm(p)
       \/ CreatePart(p) \/ CloseWriter(p)
       \/ httpClient37(p) \/ httpClient38(p) \/ httpClient39(p)
       \/ Send(p) \/ Receive(p)
       \/ GetJsonDecode(p) \/ GetXmlDecode(p) \/ GetBodyRead(p)
       \/ PostJsonRead(p) \/ PostJsonPtrDecode(p) \/ PostXmlPtrDecode(p)
       \/ MultipartRead(p) \/ GetFileCreate(p) \/ GetFileCopy(p)
       \/ Finish(p)

Spec == Init /\ [][Next]_vars

(* ------------------------------ properties ----------------------------- *)

\* A helper call that got a response with a status other than 200.
Non200(c) == c.pc = "done" /\ c.resp.status # 0 /\ c.resp.status # StatusOK

\* A helper call that got a response with status 200.
Got200(c) == c.pc = "done" /\ c.resp.status = StatusOK

MultipartFns == {"PostFileBytes", "PostMultipartForm"}

\* C1: on a status other than 200, GetJson, GetXml, PostJson, PostJsonPtr,
\* PostXmlPtr, PostFileBytes and GetFile each return a status error carrying
\* the status code, and the non-multipart helpers do not read the body into
\* the caller's target.
C1_StatusErrorOnNon200 ==
  \A p \in Procs :
    LET c == call[p] IN
      (Non200(c) /\ c.fn \in {"GetJson", "GetXml", "PostJson", "PostJsonPtr",
                              "PostXmlPtr", "PostFileBytes", "GetFile"})
        => /\ c.ret.err = StatusErr(c.uri, c.resp.status)
           /\ c.fn \notin MultipartFns => (~c.read /\ c.target = "zero")

\* C2: when the POST got a response whose status is not 200,
\* PostMultipartForm, and PostFileBytes through it, return a nil body and a
\* nil error.
C2_MultipartNilNilOnNon200 ==
  \A p \in Procs :
    LET c == call[p] IN
      (Non200(c) /\ c.fn \in MultipartFns)
        => c.ret = [body |-> NilBytes, err |-> NoErr]

C2_Witness ==
  \E p \in Procs :
    /\ Non200(call[p])
    /\ call[p].fn = "PostFileBytes"
    /\ call[p].resp.body # <<>>

\* C3: GetFile creates or overwrites the file only for a 200 response: a
\* call that got another status returns a status error and leaves the file
\* system alone, and after a call that got 200 and returned no error the
\* file holds the response body.
C3_FileOnlyOn200 ==
  [][\A p \in Procs :
       LET c == call'[p] IN
         /\ (fs' # fs) => call[p].resp.status = StatusOK
         /\ (Non200(c) /\ c.fn = "GetFile")
              => c.ret.err = StatusErr(c.uri, c.resp.status)
         /\ (Got200(c) /\ c.fn = "GetFile" /\ c.ret.err = NoErr /\ call[p].pc = "copy")
              => fs' = File(c.resp.body)]_vars

C5_NoRequestAfterEncodingFailure ==
  \A p \in Procs :
    LET c == call[p] IN
      c.encFailed
        => /\ c.pc = "done"
           /\ ~c.sent
           /\ c.ret.body = NilBytes
           /\ c.ret.err.kind \in {"encode", "createPart", "copyPart"}

C5_Witness ==
  \E p \in Procs :
    /\ call[p].encFailed
    /\ call[p].fn = "PostXmlPtr"
    /\ call[p].pc = "done"

\* The client httpClient() starts to build takes the TimeOut of that moment,
\* which is the default until SetTimeOut has run.
UsesTimeOutInEffect ==
  /\ ~timeoutSet => TimeOut = DefaultTimeOut
  /\ \A p \in Procs :
       (call[p].pc = "cli37" /\ call'[p].pc = "cli38")
         => call'[p].cli.Timeout = TimeOut

\* C6 as amended: a call uses the TimeOut in effect when its client is
\* built (60 seconds if SetTimeOut never ran); for a positive timeout d, an
\* endpoint that takes longer than d makes the helper return a timeout
\* error and one that answers faster than d gets its response through;
\* with d <= 0 there is no timeout and every response gets through.
C6_PositiveTimeout ==
  [][/\ UsesTimeOutInEffect
     /\ \A p \in Procs :
          (call[p].pc = "wait" /\ call'[p].pc # "wait")
            => LET d == call[p].cli.Timeout
                   c == call'[p]
               IN  /\ (d > 0 /\ c.lat > d)
                         => (c.pc = "done" /\ c.ret.err = Err("timeout"))
                   /\ (d > 0 /\ c.lat < d) => c.pc = "resp"
                   /\ d <= 0 => c.pc = "resp"]_vars

C6_Witness ==
  \E p \in Procs :
    /\ timeoutSet
    /\ call[p].pc = "done"
    /\ call[p].ret.err = Err("timeout")
    /\ call[p].lat <= DefaultTimeOut

\* C6 as stated: after SetTimeOut(d), for every d, an endpoint that takes
\* longer than d makes the request fail with a timeout and one that answers
\* faster than d succeeds.
C6_AnyTimeout ==
  [][/\ UsesTimeOutInEffect
     /\ \A p \in Procs :
          (call[p].pc = "wait" /\ call'[p].pc # "wait")
            => LET d == call[p].cli.Timeout
                   c == call'[p]
               IN  /\ (c.lat > d)
                         => (c.pc = "done" /\ c.ret.err = Err("timeout"))
                   /\ (c.lat < d) => c.pc = "resp"]_vars

C8_MultipartParts ==
  \A p \in Procs :
    LET c == call[p] IN
      c.req.kind = "multipart"
        => /\ Len(c.req.parts) = Len(c.fields)
           /\ \A i \in 1 .. Len(c.fields) :
                /\ c.req.parts[i].disposition =
                     [ type |-> "form-data",
                       name |-> c.fields[i].Fieldname,
                       filename |-> c.fields[i].Filename,
                       filelength |-> Len(c.fields[i].Value) ]
                /\ c.req.parts[i].contentType = c.fields[i].ContentType
                /\ c.req.parts[i].payload = c.fields[i].Value

C8_Witness ==
  \E p \in Procs :
    /\ call[p].sent
    /\ call[p].req.kind = "multipart"
    /\ Len(call[p].fields) = 2
    /\ call[p].fields[1].Fieldname = "f1"
    /\ call[p].fields[2].Fieldname = "f2"

\* C9: a helper that has returned holds no open response body and no open
\* file, whichever way it returned.
C9_NothingLeftOpen ==
  \A p \in Procs :
    call[p].pc \in {"done", "idle"}
      => (~call[p].bodyOpen /\ ~call[p].fileOpen)

C9_Witness ==
  \E p \in Procs :
    /\ call[p].pc = "done"
    /\ call[p].fn = "GetFile"
    /\ call[p].read
    /\ call[p].ret.err = Err("io")

\* C10: the client built for a call pairs a timeout and a proxy selector
\* that the globals held together at one instant of its construction, and
\* no setter changes the client once it is built.
C10_ConsistentSnapshot ==
  [][\A p \in Procs :
       /\ call'[p].pc = "send" => call'[p].cli.Proxy \in call'[p].held
       /\ (call[p].pc \in {"send", "wait"} /\ call'[p].pc = call[p].pc)
            => call'[p].cli = call[p].cli]_vars

=============================================================================
